---------------------------- MODULE Spec2Model ----------------------------
(***************************************************************************)
(* Model of the landmark audio fingerprinter (Codegen._write, Codegen.ts)  *)
(* and of the offset-histogram matcher (findAudioPosition).                *)
(*                                                                         *)
(* Scaling.  The fingerprinter's tunable constants are kept by name and    *)
(* reduced in value so that the steady state of the mark list (reached     *)
(* after WINDOW_DT + PRUNING_DT + 1 frames) and buffer compaction lie      *)
(* inside the explored runs:                                               *)
(*     NFFT 64 -> 16, MNLM 10 -> 2, MPPP 10 -> 2, WINDOW_DF 80 -> 20,      *)
(*     WINDOW_DT 120 -> 2, PRUNING_DT 32 -> 2,                             *)
(*     compaction cap 1000000 -> 56 bytes, retained tail 20000 -> 40.      *)
(* The relations the code relies on are preserved: STEP = NFFT/2,          *)
(* WINDOW_DF > NFFT/2, retained tail >= NFFT*BPS, cap > retained tail.     *)
(*                                                                         *)
(* Numbers.  The source computes in IEEE doubles.  Here every magnitude    *)
(* is an integer: a spectrum value is the source's value times 2^25        *)
(* (2^15 sample scale, 2^3 window scale, 2^2 twiddle scale, 2^3 = NFFT/2   *)
(* for the spectrum normalisation 2/NFFT, 2^2 boost scale), and            *)
(* logarithms are taken to base 2 and floored, so thresholds are in        *)
(* octaves.  -Infinity and NaN are distinguished integers whose            *)
(* arithmetic is spelled out where the code meets them.                    *)
(***************************************************************************)
EXTENDS Integers, Sequences, FiniteSets, TLC

VARIABLES
    buffer,       \* Codegen.buffer: the retained PCM bytes
    bufferDelta,  \* Codegen.bufferDelta: bytes dropped from the front so far
    stepIndex,    \* Codegen.stepIndex: first sample of the next frame
    marks,        \* Codegen.marks: the list of peak marks
    threshold,    \* Codegen.threshold: per-bin log floor
    crashed,      \* readInt16LE threw ERR_OUT_OF_RANGE inside _write
    tcodesOut,    \* concatenation of the tcodes of every pushed batch
    hcodesOut,    \* concatenation of the hcodes of every pushed batch
    batches,      \* number of batches pushed to the readable side
    pending,      \* decoder output not yet delivered to _write
    pcm,          \* every byte delivered to _write so far, in order
    frameLog,     \* per processed frame: what the frame step did
    finalPeaks,   \* per anchored frame: its peaks as read when it was anchor
    readCut,      \* a frame read from a compacted buffer has emitted
    fft,          \* FFT.spectrum of the module-level FFT object
    readable,     \* batches pushed and not yet read from the readable side
    other,        \* a second Codegen instance of the same module
    decoderOpen,  \* the decoder's stdout has not ended
    streamEnded,  \* the fingerprinter has emitted 'end'
    promise,      \* the promise returned by getFingerprints
    cacheWritten, \* <audio>.fingerprints.json has been written
    fingerprintsA, \* findAudioPosition: the query list
    fingerprintsB, \* findAudioPosition: the reference list
    report,       \* the MatchResult returned, NoReport before the call
    reportEarly,  \* the MatchResult of the early-stop variant, NoReport before
    earlyStopThreshold \* options.earlyStopThreshold, in tenths

codegenVars == <<buffer, bufferDelta, stepIndex, marks, threshold, crashed,
                 tcodesOut, hcodesOut, batches, pending, pcm, frameLog,
                 finalPeaks, readCut, fft, readable>>

pairVars == <<other>>

pipeVars == <<decoderOpen, streamEnded, promise, cacheWritten>>

matchVars == <<fingerprintsA, fingerprintsB, report, reportEarly, earlyStopThreshold>>

vars == <<codegenVars, pairVars, pipeVars, matchVars>>

(***************************************************************************)
(* Constants of Codegen.ts (scaled as stated above).                       *)
(***************************************************************************)
BPS == 2
MNLM == 2
MPPP == 2
NFFT == 16
STEP == NFFT \div 2
IF_MIN == 0
IF_MAX == NFFT \div 2
WINDOW_DF == 20
WINDOW_DT == 2
PRUNING_DT == 2
MASK_DECAY_LOG == -1
THRESHOLD_INIT == -4
BUFFER_CAP == 56
BUFFER_KEEP == 40
NEG_INF == -1000000000
NAN == -2000000000
\* 1e-6 on the integer spectrum scale (1e-6 * 2^25, rounded to a power of 2)
SPEC_EPS == 32
\* log2 of the spectrum scale
LOG_NORM == 25

\* F applied to the value of v, v being evaluated once (and a function made a
\* table by the comparison)
Bind(v, F(_)) == CHOOSE r \in {F(x) : x \in {y \in {v} : y = y}} : TRUE

Max(a, b) == IF a >= b THEN a ELSE b
Min(a, b) == IF a <= b THEN a ELSE b
Abs(a) == IF a < 0 THEN -a ELSE a

RECURSIVE ILog2(_)
ILog2(x) == IF x <= 1 THEN 0 ELSE 1 + ILog2(x \div 2)

\* Math.log of a spectrum value: log 0 = -Infinity, log -Infinity = NaN
JsLog(x) ==
    IF x = NEG_INF \/ x = NAN THEN NAN
    ELSE IF x = 0 THEN NEG_INF
    ELSE ILog2(x) - LOG_NORM

\* Hann window, 8 * 0.5 * (1 - cos(2 pi i / (NFFT - 1))), rounded
HannTable == <<0, 0, 1, 3, 4, 6, 7, 8, 8, 7, 6, 4, 3, 1, 0, 0>>
HWIN(i) == HannTable[i + 1]

\* Gaussian mask on the log spectrum, -0.5 * ((j-i) / MASK_DF / sqrt(i+3))^2,
\* on the octave grid for an 8-bin spectrum
EWW(i, j) == 0 - ((2 * (j - i) * (j - i)) \div (i + 3))

\* Buffer.readInt16LE(off); NAN stands for the RangeError of a read outside
\* the buffer
ReadInt16LE(buf, off) ==
    IF off < 0 \/ off + 2 > Len(buf) THEN NAN
    ELSE LET u == buf[off + 1] + 256 * buf[off + 2]
         IN  IF u >= 32768 THEN u - 65536 ELSE u

\* 4 * cos(2 pi m / NFFT) and 4 * sin(2 pi m / NFFT), rounded
CosTable == <<4, 4, 3, 2, 0, -2, -3, -4, -4, -4, -3, -2, 0, 2, 3, 4>>
COS(m) == CosTable[(m % NFFT) + 1]
SIN(m) == COS(m + 3 * (NFFT \div 4))

RECURSIVE SumTo(_, _)
SumTo(f, n) == IF n < 0 THEN 0 ELSE f[n] + SumTo(f, n - 1)

\* dsp.FFT.forward: magnitude of bin k of the DFT of data (sqrt(re^2 + im^2)
\* by the max + min/2 estimate)
MagEstimate(re, im) == Max(re, im) + (Min(re, im) \div 2)

FFTMag(data, k) ==
    MagEstimate(
        Abs(SumTo([n \in 0..(NFFT - 1) |-> data[n] * COS(k * n)], NFFT - 1)),
        Abs(SumTo([n \in 0..(NFFT - 1) |-> data[n] * SIN(k * n)], NFFT - 1)))

\* 4 * sqrt(i + 16), floored
RECURSIVE ISqrtFrom(_, _)
ISqrtFrom(x, r) == IF (r + 1) * (r + 1) > x THEN r ELSE ISqrtFrom(x, r + 1)
Boost(i) == ISqrtFrom(16 * (i + 16), 0)

Bins == IF_MIN..(IF_MAX - 1)

\* the boosted spectrum of the frame starting at stepIndex
Spectrum(buf, delta, step) ==
    Bind([i \in 0..(NFFT - 1) |->
             HWIN(i) * ReadInt16LE(buf, (step + i) * BPS - delta)],
         LAMBDA data : [i \in Bins |-> FFTMag(data, i) * Boost(i)])

Diff(spectrum, thr) ==
    [i \in Bins |-> Max(JsLog(Max(SPEC_EPS, spectrum[i])) - thr[i], 0)]

\* position (1-based) at which the insertion loop stores a new maximum x
InsertPos(vLocMax, x) ==
    LET ok == {p \in 1..MNLM : p = 1 \/ ~(x > vLocMax[p - 1])}
    IN  CHOOSE p \in ok : \A q \in ok : q <= p

InsertAt(list, p, x) ==
    [q \in 1..MNLM |-> IF q < p THEN list[q] ELSE IF q = p THEN x ELSE list[q - 1]]

\* the scan for local maxima, bins i .. IF_MAX - 2
RECURSIVE ScanLocMax(_, _, _, _)
ScanLocMax(i, loc, spectrum, diff) ==
    IF i >= IF_MAX - 1 THEN loc
    ELSE IF diff[i] > diff[i - 1] /\ diff[i] > diff[i + 1]
            /\ spectrum[i] > loc.v[MNLM]
         THEN Bind(InsertPos(loc.v, spectrum[i]),
                   LAMBDA p :
                     Bind([i |-> InsertAt(loc.i, p, i),
                           v |-> InsertAt(loc.v, p, spectrum[i])],
                          LAMBDA loc1 : ScanLocMax(i + 1, loc1, spectrum, diff)))
         ELSE ScanLocMax(i + 1, loc, spectrum, diff)

LocMax(spectrum, diff) ==
    ScanLocMax(IF_MIN + 1,
               [i |-> [q \in 1..MNLM |-> NAN], v |-> [q \in 1..MNLM |-> NEG_INF]],
               spectrum, diff)

\* number of leading entries that are maxima; the rest is spliced away
NumFound(loc) ==
    LET bad == {q \in 1..MNLM : ~(loc.v[q] > NEG_INF)}
    IN  IF bad = {} THEN MNLM ELSE (CHOOSE q \in bad : \A r \in bad : q <= r) - 1

RECURSIVE BumpThreshold(_, _, _, _)
BumpThreshold(thr, loc, spectrum, q) ==
    IF q > NumFound(loc) THEN thr
    ELSE Bind([j \in Bins |->
                 Max(thr[j], JsLog(spectrum[loc.i[q]]) + EWW(loc.i[q], j))],
              LAMBDA thr1 : BumpThreshold(thr1, loc, spectrum, q + 1))

\* the pruning loop run over the whole list
PruneFromStart(t0) == 0

\* first mark index (0-based) the pruning loop visits
PruneFrom(t0) == Max(t0 + 1, 0)

\* the test of the pruning loop on one peak
Pruned(thr, bin, v, age) ==
    /\ bin # 0
    /\ JsLog(v) # NAN
    /\ bin # NEG_INF
    /\ JsLog(v) < thr[bin] + MASK_DECAY_LOG * age

\* the pruning assignment that clears the magnitude and keeps the bin
PruneMarkKeepBin(m, thr, age) ==
    LET hit(j) == Pruned(thr, m.i[j], m.v[j], age)
    IN  [t |-> m.t,
         i |-> m.i,
         v |-> [j \in 1..Len(m.v) |-> IF hit(j) THEN NEG_INF ELSE m.v[j]]]

PruneMark(m, thr, age) ==
    LET hit(j) == Pruned(thr, m.i[j], m.v[j], age)
    IN  [t |-> m.t,
         i |-> [j \in 1..Len(m.i) |-> IF hit(j) THEN NEG_INF ELSE m.i[j]],
         v |-> [j \in 1..Len(m.v) |-> IF hit(j) THEN NEG_INF ELSE m.v[j]]]

Prune(ms, thr, t0) ==
    LET nm == Len(ms)
    IN  [x \in 1..nm |->
            IF x - 1 >= PruneFrom(t0) THEN PruneMark(ms[x], thr, nm - x) ELSE ms[x]]

\* the pairing test without the test for different bins
PairOkSelf(past, anchor) ==
    /\ past # NEG_INF
    /\ anchor # NEG_INF
    /\ Abs(past - anchor) < WINDOW_DF

\* the pairing test on two bin indices (either may be -Infinity)
PairOk(past, anchor) ==
    /\ past # anchor
    /\ past # NEG_INF
    /\ anchor # NEG_INF
    /\ Abs(past - anchor) < WINDOW_DF

\* the hash packed with NFFT instead of NFFT / 2 as radix
HashFullWidth(past, anchor, dt) == past + NFFT * (anchor + NFFT * dt)

Hash(past, anchor, dt) ==
    past + (NFFT \div 2) * (anchor + (NFFT \div 2) * dt)

\* lowest mark index (0-based) the pairing loop visits
PairLow(t0) == Max(0, t0 - WINDOW_DT)

\* the scan for one anchor peak never stopped early
PeakCapNone(n) == n

\* number of fingerprints after which the scan for one anchor peak stops
PeakCap(n) == Min(n, MPPP)

RECURSIVE FlattenSeq(_)
FlattenSeq(ss) == IF ss = <<>> THEN <<>> ELSE Head(ss) \o FlattenSeq(Tail(ss))

\* the scan for one anchor peak running from the oldest frame to the anchor
PeakHashesOldestFirst(ms, t0, i) ==
    LET m == ms[t0 + 1]
        perMark(j) ==
            LET m2 == ms[j + 1]
                ks == SelectSeq([k \in 1..Len(m2.i) |-> k],
                                LAMBDA k : PairOk(m2.i[k], m.i[i]))
            IN  [x \in 1..Len(ks) |-> Hash(m2.i[ks[x]], m.i[i], t0 - j)]
        n == t0 - PairLow(t0) + 1
    IN  Bind(FlattenSeq([x \in 1..n |-> perMark(PairLow(t0) + (x - 1))]),
             LAMBDA all : SubSeq(all, 1, PeakCap(Len(all))))

\* hashes for anchor peak i of mark index t0 (0-based), in scan order
PeakHashes(ms, t0, i) ==
    LET m == ms[t0 + 1]
        perMark(j) ==
            LET m2 == ms[j + 1]
                ks == SelectSeq([k \in 1..Len(m2.i) |-> k],
                                LAMBDA k : PairOk(m2.i[k], m.i[i]))
            IN  [x \in 1..Len(ks) |-> Hash(m2.i[ks[x]], m.i[i], t0 - j)]
        n == t0 - PairLow(t0) + 1
    IN  Bind(FlattenSeq([x \in 1..n |-> perMark(t0 - (x - 1))]),
             LAMBDA all : SubSeq(all, 1, PeakCap(Len(all))))

AnchorHashes(ms, t0) ==
    IF t0 < 0 THEN <<>>
    ELSE FlattenSeq([i \in 1..Len(ms[t0 + 1].i) |-> PeakHashes(ms, t0, i)])

\* the splice keeping one mark more
SpliceCountLate(t0) == Max(t0 - WINDOW_DT, 0)

\* number of marks marks.splice(0, n) removes
SpliceCount(t0) == Max(t0 + 1 - WINDOW_DT, 0)

DropFirst(s, n) == SubSeq(s, Min(n, Len(s)) + 1, Len(s))

(***************************************************************************)
(* One pass of the while loop of _write: the frame at stepIndex.           *)
(* st is the object's state plus the local tcodes/hcodes of this call.     *)
(***************************************************************************)
FrameReadable(st) ==
    /\ st.stepIndex * BPS - st.bufferDelta >= 0
    /\ (st.stepIndex + NFFT) * BPS - st.bufferDelta <= Len(st.buffer)

\* a loop guard that admits a frame whose last byte is the last one buffered
FrameAdmittedAtLeast(st) ==
    (st.stepIndex + NFFT) * BPS <= Len(st.buffer) + st.bufferDelta

\* the guard of the while loop
FrameAdmitted(st) ==
    (st.stepIndex + NFFT) * BPS < Len(st.buffer) + st.bufferDelta

\* the time index taken per window length instead of per hop
MarkTimePerWindow(step) == (2 * step + NFFT) \div (2 * NFFT)

\* the time index taken before the increment of stepIndex
MarkTimeZeroBased(step) == (2 * (step - STEP) + STEP) \div (2 * STEP)

\* Math.round(this.stepIndex / STEP) after the increment
MarkTime(step) == (2 * step + STEP) \div (2 * STEP)

NoMark == [t |-> 0, i |-> <<>>, v |-> <<>>]

\* after the pruning loop: pairing, splice and threshold decay
FrameEmit(st, step1, thr1, marks2, t0) ==
    Bind(AnchorHashes(marks2, t0),
         LAMBDA hs :
           [st EXCEPT
              !.stepIndex = step1,
              !.marks = DropFirst(marks2, SpliceCount(t0)),
              !.threshold = [j \in Bins |-> thr1[j] + MASK_DECAY_LOG],
              !.tcodes = st.tcodes \o [x \in 1..Len(hs) |-> marks2[t0 + 1].t],
              !.hcodes = st.hcodes \o hs,
              !.readCut = st.readCut \/ (st.bufferDelta > 0 /\ Len(hs) > 0),
              !.log = Append(st.log,
                        [nm |-> Len(marks2), t0 |-> t0,
                         anchor |-> IF t0 >= 0 THEN marks2[t0 + 1] ELSE NoMark,
                         read |-> IF t0 >= 0
                                  THEN SubSeq(marks2, PairLow(t0) + 1, t0 + 1)
                                  ELSE <<>>,
                         hs |-> hs])])

\* the anchor taken one mark further back
AnchorIndexLate(nm) == nm - PRUNING_DT - 2

\* t0 = nm - PRUNING_DT - 1, nm the length of the list after the push
AnchorIndex(nm) == nm - PRUNING_DT - 1

\* after the scan for local maxima: threshold bump, push, pruning loop
FrameMark(st, step1, spectrum, loc) ==
    Bind(BumpThreshold(st.threshold, loc, spectrum, 1),
         LAMBDA thr1 :
           Bind(Append(st.marks,
                       [t |-> MarkTime(step1),
                        i |-> SubSeq(loc.i, 1, NumFound(loc)),
                        v |-> SubSeq(loc.v, 1, NumFound(loc))]),
                LAMBDA marks1 :
                  Bind(Prune(marks1, thr1, AnchorIndex(Len(marks1))),
                       LAMBDA marks2 :
                         FrameEmit(st, step1, thr1, marks2,
                                   AnchorIndex(Len(marks1))))))

\* FFT.spectrum keeping the larger of its old and new value in each bin
ForwardFFTLeaky(old, buf, delta, step) ==
    Bind(Spectrum(buf, delta, step),
         LAMBDA new : [i \in Bins |-> Max(old[i], new[i])])

\* FFT.forward(data) and the boost loop: every bin of FFT.spectrum, whatever
\* it held, is overwritten
ForwardFFT(old, buf, delta, step) == Spectrum(buf, delta, step)

Frame(st) ==
    IF ~FrameReadable(st) THEN [st EXCEPT !.crashed = TRUE]
    ELSE Bind(ForwardFFT(st.fft, st.buffer, st.bufferDelta, st.stepIndex),
              LAMBDA spectrum :
                Bind(Diff(spectrum, st.threshold),
                     LAMBDA diff :
                       Bind(LocMax(spectrum, diff),
                            LAMBDA loc :
                              FrameMark([st EXCEPT !.fft = spectrum],
                                        st.stepIndex + STEP, spectrum, loc))))

RECURSIVE ProcessFrames(_)
ProcessFrames(st) ==
    IF st.crashed \/ ~FrameAdmitted(st) THEN st
    ELSE Bind(Frame(st), LAMBDA st1 : ProcessFrames(st1))

\* the buffer cut down to less than one frame
CompactShort(st) ==
    IF Len(st.buffer) > BUFFER_CAP
    THEN LET delta == Len(st.buffer) - STEP * BPS
         IN  [st EXCEPT !.bufferDelta = st.bufferDelta + delta,
                        !.buffer = DropFirst(st.buffer, delta)]
    ELSE st

\* the buffer management after the loop
Compact(st) ==
    IF Len(st.buffer) > BUFFER_CAP
    THEN LET delta == Len(st.buffer) - BUFFER_KEEP
         IN  [st EXCEPT !.bufferDelta = st.bufferDelta + delta,
                        !.buffer = DropFirst(st.buffer, delta)]
    ELSE st

\* the chunk taking the place of the buffered bytes instead of joining them
WriteChunkAlone(o, chunk) ==
    Compact(ProcessFrames([o EXCEPT !.buffer = chunk, !.tcodes = <<>>,
                                    !.hcodes = <<>>, !.log = <<>>]))

\* Codegen._write(chunk) on the object state o
WriteChunk(o, chunk) ==
    Compact(ProcessFrames([o EXCEPT !.buffer = o.buffer \o chunk,
                                    !.tcodes = <<>>, !.hcodes = <<>>,
                                    !.log = <<>>]))

\* FFT.spectrum after new dsp.FFT(NFFT, SAMPLING_RATE)
ZeroSpectrum == [j \in Bins |-> 0]

\* the state after the constructor
NewCodegen ==
    [buffer |-> <<>>, bufferDelta |-> 0, stepIndex |-> 0, marks |-> <<>>,
     threshold |-> [j \in Bins |-> THRESHOLD_INIT], crashed |-> FALSE,
     tcodes |-> <<>>, hcodes |-> <<>>, log |-> <<>>, readCut |-> FALSE,
     fft |-> ZeroSpectrum]

\* a second instance on which nothing has been written
IdleInstance ==
    [state |-> NewCodegen, tcodesOut |-> <<>>, hcodesOut |-> <<>>,
     pending |-> <<>>, pcm |-> <<>>]

(***************************************************************************)
(* PCM source: the decoder delivers hops of STEP samples, each one of a    *)
(* few waveforms (16-bit little-endian).                                   *)
(***************************************************************************)
ToBytes(s) ==
    LET u == IF s < 0 THEN s + 65536 ELSE s
    IN  <<u % 256, u \div 256>>

Silence == <<0, 0, 0, 0, 0, 0, 0, 0>>
ToneLow == <<4000, 2828, 0, -2828, -4000, -2828, 0, 2828>>
ToneHigh == <<4000, -2828, 0, 2828, -4000, 2828, 0, -2828>>
ToneBoth == <<8000, 0, 0, 0, -8000, 0, 0, 0>>
ToneLoud == <<32000, 22627, 0, -22627, -32000, -22627, 0, 22627>>

Waveforms == {Silence, ToneBoth, ToneLoud}

HopBytes(w) == FlattenSeq([x \in 1..Len(w) |-> ToBytes(w[x])])

\* sizes of the chunks the pipe hands to _write
ChunkSizes == {STEP * BPS}

\* bound on the number of hops decoded in a run
MaxHops == 8

\* options.earlyStopThreshold = 0.8, in tenths
EARLY_STOP_DEFAULT == 8

NoReport == [offset |-> 0, matchCount |-> -1, matchRate |-> [nan |-> FALSE, num |-> 0, den |-> 1],
             confidence |-> -1, matches |-> <<>>]

CodegenInit ==
    /\ buffer = <<>>
    /\ bufferDelta = 0
    /\ stepIndex = 0
    /\ marks = <<>>
    /\ threshold = [j \in Bins |-> THRESHOLD_INIT]
    /\ crashed = FALSE
    /\ tcodesOut = <<>>
    /\ hcodesOut = <<>>
    /\ batches = 0
    /\ pcm = <<>>
    /\ frameLog = <<>>
    /\ finalPeaks = <<>>
    /\ readCut = FALSE
    /\ fft = ZeroSpectrum
    /\ readable = 0

\* getFingerprints after spawn and pipe, nothing having happened yet
PipeIdle ==
    /\ decoderOpen = TRUE
    /\ streamEnded = FALSE
    /\ promise = "pending"
    /\ cacheWritten = FALSE

MatchIdle ==
    /\ fingerprintsA = <<>>
    /\ fingerprintsB = <<>>
    /\ report = NoReport
    /\ reportEarly = NoReport
    /\ earlyStopThreshold = EARLY_STOP_DEFAULT

Init ==
    /\ CodegenInit
    /\ pending = <<>>
    /\ other = IdleInstance
    /\ PipeIdle
    /\ MatchIdle

\* the decoder writes the next hop of PCM to its stdout
Decode(w) ==
    /\ decoderOpen
    /\ pending = <<>>
    /\ Len(pcm) + Len(HopBytes(w)) <= MaxHops * STEP * BPS
    /\ pending' = HopBytes(w)
    /\ UNCHANGED <<buffer, bufferDelta, stepIndex, marks, threshold, crashed,
                   tcodesOut, hcodesOut, batches, pcm, frameLog, finalPeaks,
                   readCut, fft, readable>>
    /\ UNCHANGED <<pairVars, pipeVars, matchVars>>

\* the pipe delivers the next chunk of at most k bytes: Codegen._write
Write(k) ==
    /\ ~crashed
    /\ pending # <<>>
    /\ LET n == Min(k, Len(pending))
           chunk == SubSeq(pending, 1, n)
           o == [buffer |-> buffer, bufferDelta |-> bufferDelta,
                 stepIndex |-> stepIndex, marks |-> marks,
                 threshold |-> threshold, crashed |-> FALSE,
                 tcodes |-> <<>>, hcodes |-> <<>>, log |-> <<>>,
                 readCut |-> readCut, fft |-> fft]
       IN  \E r \in {WriteChunk(o, chunk)} :
           /\ pending' = DropFirst(pending, n)
           /\ pcm' = pcm \o chunk
           /\ buffer' = r.buffer
           /\ bufferDelta' = r.bufferDelta
           /\ stepIndex' = r.stepIndex
           /\ marks' = r.marks
           /\ threshold' = r.threshold
           /\ crashed' = r.crashed
           /\ tcodesOut' = IF r.crashed THEN tcodesOut ELSE tcodesOut \o r.tcodes
           /\ hcodesOut' = IF r.crashed THEN hcodesOut ELSE hcodesOut \o r.hcodes
           /\ batches' = IF ~r.crashed /\ Len(r.tcodes) > 0 THEN batches + 1 ELSE batches
           /\ readable' = IF ~r.crashed /\ Len(r.tcodes) > 0 THEN readable + 1 ELSE readable
           /\ readCut' = r.readCut
           /\ fft' = r.fft
           /\ frameLog' = frameLog \o r.log
           /\ finalPeaks' = finalPeaks \o
                  SelectSeq([x \in 1..Len(r.log) |-> r.log[x].anchor],
                            LAMBDA a : a.t > 0)
           /\ UNCHANGED <<pairVars, pipeVars, matchVars>>

Next ==
    \/ \E w \in Waveforms : Decode(w)
    \/ \E k \in ChunkSizes : Write(k)

Spec == Init /\ [][Next]_vars

(***************************************************************************)
(* The same stream fed with a second palette of waveforms: an impulse pair *)
(* whose frames carry two peaks (bins 2 and 6) and a loud tone at bin 6    *)
(* that masks the upper one of them afterwards.                            *)
(***************************************************************************)
ToneSoft == <<6000, 0, 0, 0, -6000, 0, 0, 0>>
ToneHighLoud == <<12000, -8485, 0, 8485, -12000, 8485, 0, -8485>>

PeakWaveforms == {Silence, ToneSoft, ToneHighLoud}

PeakNext ==
    \/ \E w \in PeakWaveforms : Decode(w)
    \/ \E k \in ChunkSizes : Write(k)

PeakSpec == Init /\ [][PeakNext]_vars

(***************************************************************************)
(* getFingerprints end to end: the decoder process, the pipe into the      *)
(* Codegen stream, the consumer of its readable side and the promise.      *)
(***************************************************************************)
\* highWaterMark of the stream, in batches on the object-mode readable side
HIGH_WATER_MARK == 2

PipeWaveforms == {Silence, ToneSoft}

\* the consumer takes the oldest batch off the readable side: 'data'
Read ==
    /\ readable > 0
    /\ readable' = readable - 1
    /\ UNCHANGED <<buffer, bufferDelta, stepIndex, marks, threshold, crashed,
                   tcodesOut, hcodesOut, batches, pending, pcm, frameLog,
                   finalPeaks, readCut, fft>>
    /\ UNCHANGED <<pairVars, pipeVars, matchVars>>

\* reject(...): a promise that is settled stays as it is
Reject == IF promise = "pending" THEN "rejected" ELSE promise

\* the decoder writes to its stderr: decoder.stderr.on("data")
Stderr ==
    /\ promise' = Reject
    /\ UNCHANGED <<decoderOpen, streamEnded, cacheWritten>>
    /\ UNCHANGED <<codegenVars, pairVars, matchVars>>

\* the decoder process emits 'error': decoder.on("error")
DecoderError ==
    /\ promise' = Reject
    /\ UNCHANGED <<decoderOpen, streamEnded, cacheWritten>>
    /\ UNCHANGED <<codegenVars, pairVars, matchVars>>

\* the decoder's stdout ends, whether the process succeeded or failed; the
\* pipe then ends the writable side of the Codegen stream
DecoderClose ==
    /\ decoderOpen
    /\ pending = <<>>
    /\ decoderOpen' = FALSE
    /\ UNCHANGED <<streamEnded, promise, cacheWritten>>
    /\ UNCHANGED <<codegenVars, pairVars, matchVars>>

\* an end of stream that emits the newest mark as one more fingerprint time
EndFlush ==
    /\ ~decoderOpen
    /\ ~crashed
    /\ ~streamEnded
    /\ readable = 0
    /\ streamEnded' = TRUE
    /\ cacheWritten' = TRUE
    /\ promise' = IF promise = "pending" THEN "resolved" ELSE promise
    /\ tcodesOut' = IF marks = <<>> THEN tcodesOut
                    ELSE Append(tcodesOut, marks[Len(marks)].t)
    /\ UNCHANGED decoderOpen
    /\ UNCHANGED <<buffer, bufferDelta, stepIndex, marks, threshold, crashed,
                   hcodesOut, batches, pending, pcm, frameLog, finalPeaks,
                   readCut, fft, readable>>
    /\ UNCHANGED <<pairVars, matchVars>>

\* fingerprinter.on("end"): every batch has been consumed; no _flush exists,
\* so nothing is pushed; the cache file is written and resolve is called
End ==
    /\ ~decoderOpen
    /\ ~crashed
    /\ ~streamEnded
    /\ readable = 0
    /\ streamEnded' = TRUE
    /\ cacheWritten' = TRUE
    /\ promise' = IF promise = "pending" THEN "resolved" ELSE promise
    /\ UNCHANGED decoderOpen
    /\ UNCHANGED <<codegenVars, pairVars, matchVars>>

PipeNext ==
    \/ \E w \in PipeWaveforms : Decode(w)
    \/ \E k \in ChunkSizes : Write(k)
    \/ Read
    \/ Stderr
    \/ DecoderError
    \/ DecoderClose
    \/ End

PipeSpec == Init /\ [][PipeNext]_vars

(***************************************************************************)
(* The same stream cut at arbitrary byte positions: the decoder's whole    *)
(* output is in the pipe from the start and reaches _write in chunks of    *)
(* any of the sizes below, odd ones included.                              *)
(***************************************************************************)
HopPatterns ==
    {<<ToneBoth, ToneBoth, Silence, ToneBoth, ToneBoth, Silence, Silence, Silence>>,
     <<ToneBoth, ToneBoth, Silence, ToneBoth, Silence, Silence, Silence>>,
     <<ToneBoth, ToneBoth, Silence, ToneBoth, ToneLoud, Silence>>}

\* MaxHops hops of PCM repeating a pattern of waveforms
Signal(pattern) ==
    FlattenSeq([h \in 1..MaxHops |-> HopBytes(pattern[((h - 1) % Len(pattern)) + 1])])

AnyChunkSizes == {1, 3, STEP * BPS, BUFFER_KEEP}

ChunkInit ==
    /\ CodegenInit
    /\ pending \in {Signal(pattern) : pattern \in HopPatterns}
    /\ other = IdleInstance
    /\ PipeIdle
    /\ MatchIdle

ChunkNext == \E k \in AnyChunkSizes : Write(k)

ChunkSpec == ChunkInit /\ [][ChunkNext]_vars

(***************************************************************************)
(* Two Codegen instances of one module, each fed its own stream.  _write   *)
(* runs to completion, so the calls of the two interleave chunk by chunk;  *)
(* both use the one FFT object of the module.                              *)
(***************************************************************************)
\* _write(chunk) on the second instance
WriteOther(k) ==
    /\ ~other.state.crashed
    /\ other.pending # <<>>
    /\ LET n == Min(k, Len(other.pending))
           chunk == SubSeq(other.pending, 1, n)
           o == [other.state EXCEPT !.fft = fft]
       IN  \E r \in {WriteChunk(o, chunk)} :
           /\ other' = [state |-> [r EXCEPT !.fft = ZeroSpectrum, !.tcodes = <<>>,
                                            !.hcodes = <<>>, !.log = <<>>],
                        tcodesOut |-> IF r.crashed THEN other.tcodesOut
                                      ELSE other.tcodesOut \o r.tcodes,
                        hcodesOut |-> IF r.crashed THEN other.hcodesOut
                                      ELSE other.hcodesOut \o r.hcodes,
                        pending |-> DropFirst(other.pending, n),
                        pcm |-> other.pcm \o chunk]
           /\ fft' = r.fft
           /\ UNCHANGED <<buffer, bufferDelta, stepIndex, marks, threshold, crashed,
                          tcodesOut, hcodesOut, batches, pending, pcm, frameLog,
                          finalPeaks, readCut, readable>>
           /\ UNCHANGED <<pipeVars, matchVars>>

PairInit ==
    /\ CodegenInit
    /\ pending \in {Signal(pattern) : pattern \in HopPatterns}
    /\ other \in {[IdleInstance EXCEPT !.pending = Signal(pattern)] :
                      pattern \in HopPatterns}
    /\ PipeIdle
    /\ MatchIdle

PairNext ==
    \/ \E k \in ChunkSizes : Write(k)
    \/ \E k \in ChunkSizes : WriteOther(k)

PairSpec == PairInit /\ [][PairNext]_vars

(***************************************************************************)
(* The matcher, findAudioPosition (the plain variant).  Times and offsets  *)
(* are integers in units of 0.005 ms, so that the default bin size of      *)
(* 0.05 ms is 10 units and a quotient offset / binSize can lie exactly     *)
(* halfway between two integers.                                           *)
(***************************************************************************)
UnitsPerMs == 200
\* options.binSize = 0.05
BinSize == 10

Times == {0, 5, 20, 200}
Hashes == {1, 2}
Fingerprints == [time : Times, hash : Hashes]

\* bounds on the lengths of the two lists
MaxLenA == 2
MaxLenB == 2

Lists(n) == UNION {[1..k -> Fingerprints] : k \in 0..n}

RECURSIVE SortAscending(_)
SortAscending(set) ==
    IF set = {} THEN <<>>
    ELSE LET lo == CHOOSE x \in set : \A y \in set : x <= y
         IN  <<lo>> \o SortAscending(set \ {lo})

\* the index keeping only the last time of each hash
MatchingTimesBLast(fpB, h) ==
    Bind(SelectSeq(fpB, LAMBDA fp : fp.hash = h),
         LAMBDA sel : IF sel = <<>> THEN <<>> ELSE <<sel[Len(sel)].time>>)

\* the index keeping each time of a hash once
MatchingTimesBUnique(fpB, h) ==
    Bind(SelectSeq(fpB, LAMBDA fp : fp.hash = h),
         LAMBDA sel : SortAscending({sel[x].time : x \in 1..Len(sel)}))

\* hashMapB.get(h): the times of B's fingerprints of hash h, in input order
MatchingTimesB(fpB, h) ==
    Bind(SelectSeq(fpB, LAMBDA fp : fp.hash = h),
         LAMBDA sel : [x \in 1..Len(sel) |-> sel[x].time])

\* Math.round(num / den) for den > 0: a half goes to the integer above
JsRound(num, den) == (2 * num + den) \div (2 * den)

\* Math.round(offset / options.binSize) * options.binSize
BinKey(offset) == JsRound(offset, BinSize) * BinSize

\* matchDetails: one entry per pair, A in input order, then B in input order
MatchDetails(fpA, fpB) ==
    FlattenSeq(
        [a \in 1..Len(fpA) |->
            Bind(MatchingTimesB(fpB, fpA[a].hash),
                 LAMBDA ts :
                   [x \in 1..Len(ts) |->
                       [hashA |-> fpA[a].hash, timeA |-> fpA[a].time,
                        timeB |-> ts[x], offset |-> ts[x] - fpA[a].time]])])

SeqRange(q) == {q[x] : x \in 1..Len(q)}

\* the keys of offsetBins in the order they were first set
RECURSIVE InsertionOrder(_, _)
InsertionOrder(details, acc) ==
    IF details = <<>> THEN acc
    ELSE InsertionOrder(
            Tail(details),
            IF BinKey(Head(details).offset) \in SeqRange(acc) THEN acc
            ELSE Append(acc, BinKey(Head(details).offset)))

\* offsetBins[key]
BinCount(details, key) ==
    Cardinality({x \in 1..Len(details) : BinKey(details[x].offset) = key})

\* whether binKey.toString() is a canonical array index (a non-negative
\* integer number of milliseconds): such keys are enumerated first
IsArrayIndex(key) == key >= 0 /\ key % UnitsPerMs = 0

\* the key order of Object.entries(offsetBins): array indices ascending,
\* then the other keys in insertion order
EntriesOrder(inserted) ==
    SortAscending({k \in SeqRange(inserted) : IsArrayIndex(k)})
        \o SelectSeq(inserted, LAMBDA k : ~IsArrayIndex(k))

\* the loop that finds the most frequent offset; pick = <<bestOffset, maxCount>>
RECURSIVE PeakPick(_, _, _)
PeakPick(keys, details, pick) ==
    IF keys = <<>> THEN pick
    ELSE Bind(BinCount(details, Head(keys)),
              LAMBDA count :
                PeakPick(Tail(keys), details,
                         IF count > pick[2] THEN <<Head(keys), count>> ELSE pick))

\* a / b in double arithmetic: 0 / 0 is NaN
JsDivide(a, b) ==
    IF b = 0 THEN [nan |-> a = 0, num |-> a, den |-> 0]
    ELSE [nan |-> FALSE, num |-> a, den |-> b]

\* Math.abs(match.offset - bestOffset) <= options.binSize * 2
NearBest(offset, bestOffset) == Abs(offset - bestOffset) <= BinSize * 2

MatchResult(fpA, details, pick) ==
    Bind(SelectSeq(details, LAMBDA m : NearBest(m.offset, pick[1])),
         LAMBDA bestMatches :
           [offset |-> pick[1],
            matchCount |-> Len(bestMatches),
            matchRate |-> JsDivide(Len(bestMatches), Len(fpA)),
            confidence |-> pick[2],
            matches |-> [x \in 1..Len(bestMatches) |->
                            [hashA |-> bestMatches[x].hashA,
                             timeA |-> bestMatches[x].timeA,
                             timeB |-> bestMatches[x].timeB]]])

FindPosition(fpA, fpB) ==
    Bind(MatchDetails(fpA, fpB),
         LAMBDA details :
           MatchResult(fpA, details,
                       PeakPick(EntriesOrder(InsertionOrder(details, <<>>)),
                                details, <<0, 0>>)))

MatchInit ==
    /\ CodegenInit
    /\ pending = <<>>
    /\ other = IdleInstance
    /\ PipeIdle
    /\ fingerprintsA \in Lists(MaxLenA)
    /\ fingerprintsB \in Lists(MaxLenB)
    /\ report = NoReport
    /\ reportEarly = NoReport
    /\ earlyStopThreshold = EARLY_STOP_DEFAULT

\* the call findAudioPosition(fingerprintsA, fingerprintsB)
FindAudioPosition ==
    /\ report = NoReport
    /\ report' = FindPosition(fingerprintsA, fingerprintsB)
    /\ UNCHANGED <<fingerprintsA, fingerprintsB, reportEarly, earlyStopThreshold>>
    /\ UNCHANGED <<codegenVars, pairVars, pipeVars>>

MatchNext == FindAudioPosition

MatchSpec == MatchInit /\ [][MatchNext]_vars

(***************************************************************************)
(* The matcher of index.ts: counts kept in a Map, the best bin tracked     *)
(* while scanning, and the scan left as soon as the best count reaches     *)
(* floor(|A| * earlyStopThreshold).  sampleRate is 1.0: A is not sampled.  *)
(***************************************************************************)
\* options.maxMatchesToReturn
MAX_MATCHES_TO_RETURN == 100

\* every pair in one bin, whatever its offset
EarlyBinKeyOne(offset) == 0

\* Math.round(offset / options.binSize) * options.binSize
EarlyBinKey(offset) == JsRound(offset, BinSize) * BinSize

\* Math.floor(fingerprintsASampled.length * options.earlyStopThreshold)
EarlyStopCount(lenA, tenths) == (lenA * tenths) \div 10

\* number of pairs among the first n whose bin is key: offsetBins.get(key)
EarlyCount(details, n, key) ==
    Cardinality({x \in 1..n : EarlyBinKey(details[x].offset) = key})

NoScan == [bestOffset |-> 0, maxCount |-> 0, stopped |-> FALSE,
           topKeys |-> <<>>, top |-> <<>>]

\* one pass of the inner loop on pair n; topKeys / top are the keys and the
\* arrays of topMatchesByOffset in insertion order
EarlyStep(details, n, st, stopCount, lenA) ==
    LET key == EarlyBinKey(details[n].offset)
        currentCount == EarlyCount(details, n, key)
        better == currentCount > st.maxCount
        st1 == IF better THEN [st EXCEPT !.maxCount = currentCount, !.bestOffset = key]
               ELSE st
        match == [hashA |-> details[n].hashA, timeA |-> details[n].timeA,
                  timeB |-> details[n].timeB]
        at == {x \in 1..Len(st1.topKeys) : st1.topKeys[x] = key}
    IN  IF better /\ st1.maxCount >= stopCount THEN [st1 EXCEPT !.stopped = TRUE]
        ELSE IF ~(10 * currentCount > lenA) THEN st1
        ELSE IF at = {}
             THEN [st1 EXCEPT !.topKeys = Append(@, key), !.top = Append(@, <<match>>)]
        ELSE LET x == CHOOSE y \in at : TRUE
             IN  IF Len(st1.top[x]) < MAX_MATCHES_TO_RETURN
                 THEN [st1 EXCEPT !.top[x] = Append(@, match)]
                 ELSE st1

\* the two nested loops with their breaks
RECURSIVE EarlyScan(_, _, _, _, _)
EarlyScan(details, n, st, stopCount, lenA) ==
    IF n > Len(details) \/ st.stopped THEN st
    ELSE Bind(EarlyStep(details, n, st, stopCount, lenA),
              LAMBDA st1 : EarlyScan(details, n + 1, st1, stopCount, lenA))

\* bestMatches: the details kept for the best bin, filled up from the bins
\* within two bin sizes of it when fewer than maxCount were kept
EarlyBestMatches(st) ==
    LET at == {x \in 1..Len(st.topKeys) : st.topKeys[x] = st.bestOffset}
        own == IF at = {} THEN <<>> ELSE st.top[CHOOSE y \in at : TRUE]
        near == FlattenSeq(
                   [x \in 1..Len(st.topKeys) |->
                      IF st.topKeys[x] # st.bestOffset
                         /\ Abs(st.topKeys[x] - st.bestOffset) <= BinSize * 2
                      THEN st.top[x] ELSE <<>>])
        all == IF Len(own) < Min(st.maxCount, MAX_MATCHES_TO_RETURN)
               THEN own \o near ELSE own
    IN  SubSeq(all, 1, Min(Len(all), MAX_MATCHES_TO_RETURN))

FindPositionEarly(fpA, fpB, tenths) ==
    Bind(MatchDetails(fpA, fpB),
         LAMBDA details :
           Bind(EarlyScan(details, 1, NoScan, EarlyStopCount(Len(fpA), tenths), Len(fpA)),
                LAMBDA st :
                  [offset |-> st.bestOffset,
                   matchCount |-> st.maxCount,
                   matchRate |-> JsDivide(st.maxCount, Len(fpA)),
                   confidence |-> st.maxCount,
                   matches |-> EarlyBestMatches(st)]))

\* fingerprint lists and option values for the comparison of the variants
EarlyTimes == {0, 20}
EarlyFingerprints == [time : EarlyTimes, hash : Hashes]
EarlyLists(n) == UNION {[1..k -> EarlyFingerprints] : k \in 0..n}
EarlyStopTenths == {EARLY_STOP_DEFAULT, 20}

EarlyInit ==
    /\ CodegenInit
    /\ pending = <<>>
    /\ other = IdleInstance
    /\ PipeIdle
    /\ fingerprintsA \in EarlyLists(MaxLenA)
    /\ fingerprintsB \in EarlyLists(MaxLenB)
    /\ earlyStopThreshold \in EarlyStopTenths
    /\ report = NoReport
    /\ reportEarly = NoReport

\* the call findAudioPosition(fingerprintsA, fingerprintsB, options) of index.ts
FindAudioPositionEarly ==
    /\ reportEarly = NoReport
    /\ reportEarly' = FindPositionEarly(fingerprintsA, fingerprintsB, earlyStopThreshold)
    /\ UNCHANGED <<fingerprintsA, fingerprintsB, report, earlyStopThreshold>>
    /\ UNCHANGED <<codegenVars, pairVars, pipeVars>>

EarlyNext == FindAudioPosition \/ FindAudioPositionEarly

EarlySpec == EarlyInit /\ [][EarlyNext]_vars

(***************************************************************************)
(* Claims about the fingerprinter, checked under ChunkSpec and Spec.       *)
(***************************************************************************)
HalfN == NFFT \div 2

\* the bytes delivered so far, written to a fresh Codegen as one chunk
OneChunk == WriteChunk(NewCodegen, pcm)

\* C1: the fingerprints emitted for a byte stream do not depend on where the
\* stream is cut into chunks: after any sequence of chunks, odd cuts
\* included, the output so far is the output of one write of the same bytes.
C1_ChunkIndependent ==
    /\ ~crashed
    /\ \E one \in {OneChunk} :
          /\ ~one.crashed
          /\ tcodesOut = one.tcodes
          /\ hcodesOut = one.hcodes

\* C1 witness: fingerprints have been emitted after a cut in the middle of a
\* sample, past a compaction of the buffer
C1_Witness ==
    /\ Len(pcm) % 2 = 1
    /\ bufferDelta > 0
    /\ batches >= 2
    /\ Len(tcodesOut) > 0

\* the bytes delivered so far, all framed from one buffer that is never cut
Uncompacted == ProcessFrames([NewCodegen EXCEPT !.buffer = pcm])

\* C11: compaction never drops a byte a later frame reads: no read falls
\* outside the buffer, the buffer is the tail of the stream from absolute
\* position bufferDelta, the next frame starts inside it, and the output is
\* that of a run whose buffer is never compacted.
C11_CompactionSafe ==
    /\ ~crashed
    /\ buffer = SubSeq(pcm, bufferDelta + 1, Len(pcm))
    /\ stepIndex * BPS >= bufferDelta
    /\ \E ref \in {Uncompacted} :
          /\ tcodesOut = ref.tcodes
          /\ hcodesOut = ref.hcodes
          /\ stepIndex = ref.stepIndex

\* C11 witness: a frame read from a compacted buffer has emitted fingerprints
C11_Witness ==
    /\ readCut
    /\ bufferDelta > 0
    /\ Len(tcodesOut) > 0

\* the output of a Codegen that is the only user of the module, on bytes
Alone(bytes) == ProcessFrames([NewCodegen EXCEPT !.buffer = bytes])

\* C13: when the writes of two instances interleave chunk by chunk, each
\* emits exactly what it emits when run alone on the bytes it received, and
\* two instances that received the same bytes have emitted the same lists.
C13_InstancesIndependent ==
    /\ ~crashed
    /\ ~other.state.crashed
    /\ \E a \in {Alone(pcm)} :
          tcodesOut = a.tcodes /\ hcodesOut = a.hcodes
    /\ \E b \in {Alone(other.pcm)} :
          other.tcodesOut = b.tcodes /\ other.hcodesOut = b.hcodes
    /\ pcm = other.pcm
          => (tcodesOut = other.tcodesOut /\ hcodesOut = other.hcodesOut)

\* C13 witness: two instances on different streams have both emitted while
\* both still had chunks to come
C13_Witness ==
    /\ pending # <<>>
    /\ other.pending # <<>>
    /\ Len(tcodesOut) > 0
    /\ Len(other.tcodesOut) > 0
    /\ hcodesOut # other.hcodesOut

\* bins of the peaks of mark m that have not been invalidated
ValidBins(m) ==
    {m.i[j] : j \in {q \in 1..Len(m.i) : m.i[q] # NEG_INF /\ m.v[q] # NEG_INF}}

\* the three fields packed into hash h
DecodePast(h) == h % HalfN
DecodeAnchor(h) == (h \div HalfN) % HalfN
DecodeDt(h) == h \div (HalfN * HalfN)

\* C12: every emitted hash decodes into the bin of a still-valid peak of the
\* frame dt frames before the anchor, the bin of a still-valid peak of the
\* anchor frame, and dt, with different bins less than WINDOW_DF apart and
\* 0 <= dt <= WINDOW_DT; so no invalidated peak contributes to a hash.
C12_HashDecodes ==
    \A k \in 1..Len(frameLog) : \A x \in 1..Len(frameLog[k].hs) :
        LET h == frameLog[k].hs[x]
            read == frameLog[k].read
        IN  /\ h >= 0
            /\ DecodeDt(h) <= WINDOW_DT
            /\ DecodeDt(h) < Len(read)
            /\ DecodeAnchor(h) \in ValidBins(frameLog[k].anchor)
            /\ DecodePast(h) \in ValidBins(read[Len(read) - DecodeDt(h)])
            /\ read[Len(read) - DecodeDt(h)].t = frameLog[k].anchor.t - DecodeDt(h)
            /\ DecodeAnchor(h) # DecodePast(h)
            /\ Abs(DecodeAnchor(h) - DecodePast(h)) < WINDOW_DF

\* C12 witness: a hash across frames was emitted while an invalidated peak
\* lay among the marks the pairing read
C12_Witness ==
    \E k \in 1..Len(frameLog) :
        /\ \E x \in 1..Len(frameLog[k].hs) : DecodeDt(frameLog[k].hs[x]) > 0
        /\ \E y \in 1..Len(frameLog[k].read) :
              \E j \in 1..Len(frameLog[k].read[y].i) :
                  frameLog[k].read[y].i[j] = NEG_INF

\* every mark the model has seen: the list and the marks logged at pairing
SeenMarks ==
    {marks[x] : x \in 1..Len(marks)}
        \cup UNION {{frameLog[k].read[y] : y \in 1..Len(frameLog[k].read)} :
                       k \in 1..Len(frameLog)}

\* at most MNLM peaks, an invalidated peak being -Infinity in both arrays
MarkShape(m) ==
    /\ Len(m.i) <= MNLM
    /\ Len(m.v) = Len(m.i)
    /\ \A j \in 1..Len(m.i) : (m.v[j] = NEG_INF) <=> (m.i[j] = NEG_INF)
    /\ \A j \in 1..Len(m.i) : m.i[j] # NEG_INF => (m.i[j] \in Bins /\ m.v[j] >= 0)

\* C14 as stated: every mark carries at most MNLM peaks whose magnitudes,
\* invalidated ones included, are in descending order, and an invalidated
\* peak is -Infinity in magnitude and in bin.
C14_MarksSorted ==
    \A m \in SeenMarks :
        /\ MarkShape(m)
        /\ \A j \in 1..(Len(m.v) - 1) : m.v[j] >= m.v[j + 1]

\* C14 amended: every mark carries at most MNLM peaks, an invalidated peak is
\* -Infinity in magnitude and in bin, and the magnitudes of the peaks that
\* are still valid are in descending order (an invalidated peak keeps its
\* slot, so it may precede a valid one).
C14_ValidPeaksSorted ==
    \A m \in SeenMarks :
        /\ MarkShape(m)
        /\ \A j, q \in 1..Len(m.v) :
              (j < q /\ m.v[j] # NEG_INF /\ m.v[q] # NEG_INF) => m.v[j] >= m.v[q]

\* C14 witness: a mark of two peaks whose larger peak has been invalidated
\* and whose smaller peak is still valid
C14_Witness ==
    \E x \in 1..Len(marks) :
        /\ Len(marks[x].v) = 2
        /\ marks[x].v[1] = NEG_INF
        /\ marks[x].v[2] # NEG_INF

\* the processing-order number, from 0, of the frame that pushed mark m:
\* stepIndex grows by STEP per frame and m.t is stepIndex / STEP after it
FrameOf(m) == m.t - 1

\* C15 as stated: while frame c is processed the anchor is frame
\* c - PRUNING_DT - 1, and nothing is emitted before frame PRUNING_DT + 1.
C15_AnchorLatencyStated ==
    \A k \in 1..Len(frameLog) :
        /\ frameLog[k].t0 >= 0 => FrameOf(frameLog[k].anchor) = (k - 1) - PRUNING_DT - 1
        /\ frameLog[k].hs # <<>> => k - 1 >= PRUNING_DT + 1

\* C15 amended: while frame c is processed (frames numbered from 0) the
\* anchor is frame c - PRUNING_DT; t0 < 0 exactly while c < PRUNING_DT and
\* nothing is emitted then; the pruning loop of frame c visits the last
\* min(c + 1, PRUNING_DT) marks, so a frame undergoes PRUNING_DT passes
\* (those of frames f .. f + PRUNING_DT - 1) before it is the anchor.
C15_AnchorLatency ==
    \A k \in 1..Len(frameLog) :
        /\ frameLog[k].t0 < 0 <=> k - 1 < PRUNING_DT
        /\ frameLog[k].t0 < 0 => frameLog[k].hs = <<>>
        /\ frameLog[k].t0 >= 0 => FrameOf(frameLog[k].anchor) = (k - 1) - PRUNING_DT
        /\ frameLog[k].nm - PruneFrom(frameLog[k].t0) = Min(k, PRUNING_DT)

\* C15 witness: fingerprints are emitted while the frame numbered PRUNING_DT
\* is processed, the anchor being frame 0
C15_Witness ==
    /\ Len(frameLog) > PRUNING_DT
    /\ frameLog[PRUNING_DT + 1].hs # <<>>
    /\ FrameOf(frameLog[PRUNING_DT + 1].anchor) = 0

\* C16 as stated: whenever the decoder's stderr output or 'error' event has
\* rejected the promise, no cache file has been written.
C16_CacheOnlyOnSuccess ==
    promise = "rejected" => ~cacheWritten

\* C17 as stated: the batches pending on the readable side never exceed the
\* high-water mark.
C17_BoundedOutput ==
    readable <= HIGH_WATER_MARK

\* the frames used as anchor so far, in the order of the steps
AnchoredFrames == [x \in 1..Len(finalPeaks) |-> FrameOf(finalPeaks[x])]

\* the time codes pushed by the frame steps, each for its own anchor
FrameTimes ==
    FlattenSeq([k \in 1..Len(frameLog) |->
                  [x \in 1..Len(frameLog[k].hs) |-> frameLog[k].anchor.t]])

\* C18: over the steps the anchors are the processed frames 0, 1, 2, ... in
\* order, none skipped and none used twice, also across the steps that drop
\* old marks; the last PRUNING_DT processed frames are never anchored; and
\* every emitted time code was pushed by the frame step of its anchor, so
\* nothing is emitted at end-of-stream.
C18_AnchoredOnceInOrder ==
    /\ AnchoredFrames = [x \in 1..Max(Len(frameLog) - PRUNING_DT, 0) |-> x - 1]
    /\ tcodesOut = FrameTimes
    /\ Len(hcodesOut) = Len(tcodesOut)

\* C18 witness: the stream has ended after fingerprints were emitted and old
\* marks were dropped, with a tail of processed frames never anchored
C18_Witness ==
    /\ streamEnded
    /\ Len(tcodesOut) > 0
    /\ Len(marks) < Len(frameLog)
    /\ Len(finalPeaks) = Len(frameLog) - PRUNING_DT

\* C2: fingerprints are emitted in nondecreasing order of time index, within
\* a batch and across batches, and the anchor frame strictly increases from
\* one processed frame to the next.
C2_EmissionOrdered ==
    /\ \A x, y \in 1..Len(tcodesOut) : x <= y => tcodesOut[x] <= tcodesOut[y]
    /\ \A x \in 1..(Len(finalPeaks) - 1) : finalPeaks[x].t < finalPeaks[x + 1].t

\* C2 witness: fingerprints of two different anchor frames have been emitted
C2_Witness ==
    /\ Len(finalPeaks) >= 3
    /\ \E x, y \in 1..Len(tcodesOut) : tcodesOut[x] < tcodesOut[y]

OfAnchorBin(hs, f) == {x \in 1..Len(hs) : (hs[x] \div HalfN) % HalfN = f}

\* C4 as stated: no anchor frame emits more than MPPP fingerprints.
C4_FrameAtMostMPPP ==
    \A k \in 1..Len(frameLog) : Len(frameLog[k].hs) <= MPPP

\* C4 amended: no anchor peak emits more than MPPP fingerprints, and so no
\* anchor frame emits more than MNLM * MPPP.
C4_PeakAtMostMPPP ==
    \A k \in 1..Len(frameLog) :
        /\ Len(frameLog[k].hs) <= MNLM * MPPP
        /\ \A f \in Bins : Cardinality(OfAnchorBin(frameLog[k].hs, f)) <= MPPP

\* C4 witness: an anchor frame with two peaks has emitted MPPP for each
C4_Witness ==
    \E k \in 1..Len(frameLog) :
        /\ Len(frameLog[k].hs) = MNLM * MPPP
        /\ Len(frameLog[k].anchor.i) = MNLM

\* C9: once a frame has been the anchor, none of its peaks is modified by a
\* later step, and every mark read during pairing (anchor and past marks)
\* has the value it had when its own frame was the anchor.
C9_PeaksFinal ==
    \A f \in 1..Len(finalPeaks) :
        /\ \A x \in 1..Len(marks) :
              marks[x].t = finalPeaks[f].t => marks[x] = finalPeaks[f]
        /\ \A k \in 1..Len(frameLog) : \A x \in 1..Len(frameLog[k].read) :
              frameLog[k].read[x].t = finalPeaks[f].t
                  => frameLog[k].read[x] = finalPeaks[f]

\* C9 witness: a frame that emitted fingerprints is still in the list with a
\* valid peak, and a later step has invalidated a peak of a later frame
C9_Witness ==
    \E x, y \in 1..Len(marks) :
        /\ x < y
        /\ marks[x].t \in SeqRange(tcodesOut)
        /\ \E j \in 1..Len(marks[x].i) : marks[x].i[j] # NEG_INF
        /\ \E j \in 1..Len(marks[y].i) : marks[y].i[j] = NEG_INF

\* C10: the mark list never holds more than WINDOW_DT + PRUNING_DT + 1
\* entries, and from the frame numbered WINDOW_DT + PRUNING_DT + 1 on, the
\* anchor has at least WINDOW_DT entries before it.
C10_MarkBounds ==
    /\ Len(marks) <= WINDOW_DT + PRUNING_DT + 1
    /\ \A k \in 1..Len(frameLog) :
          /\ frameLog[k].nm <= WINDOW_DT + PRUNING_DT + 1
          /\ k >= WINDOW_DT + PRUNING_DT + 1 => frameLog[k].t0 >= WINDOW_DT

\* C10 witness: a frame was processed after the list had reached its full
\* length and its front had been dropped
C10_Witness ==
    /\ Len(frameLog) > WINDOW_DT + PRUNING_DT + 1
    /\ frameLog[Len(frameLog)].nm = WINDOW_DT + PRUNING_DT + 1
    /\ marks[1].t > 1

(***************************************************************************)
(* Claims about the matcher, checked under MatchSpec.                      *)
(***************************************************************************)
Reported == report # NoReport

\* number of pairs (a, b) of equal hash whose quantized offset is key
PairsAt(key) ==
    Cardinality({z \in (1..Len(fingerprintsA)) \X (1..Len(fingerprintsB)) :
        /\ fingerprintsA[z[1]].hash = fingerprintsB[z[2]].hash
        /\ BinKey(fingerprintsB[z[2]].time - fingerprintsA[z[1]].time) = key})

\* every value a quantized offset can take
AllKeys == {BinKey(tb - ta) : ta \in Times, tb \in Times}

\* equal hashes lie at least one bin apart in time
WellSpaced(fp) ==
    \A x, y \in 1..Len(fp) :
        (x # y /\ fp[x].hash = fp[y].hash)
            => Abs(fp[x].time - fp[y].time) >= BinSize

C6_EmptyInput ==
    (Reported /\ (fingerprintsA = <<>> \/ fingerprintsB = <<>>))
        => /\ report.matchCount = 0
           /\ ~report.matchRate.nan /\ report.matchRate.num = 0
           /\ report.confidence = 0
           /\ report.offset = 0
           /\ report.matches = <<>>

\* C7: among the bins that share the maximum count the smallest bin value is
\* reported.
C7_SmallestBinWins ==
    Reported =>
        \A key \in AllKeys :
            (PairsAt(key) > 0 /\ \A key2 \in AllKeys : PairsAt(key2) <= PairsAt(key))
                => report.offset <= key

\* C8: confidence is the number of pairs of equal hash, counted with
\* multiplicity, whose quantized offset is the reported offset, and no bin
\* has more.
C8_PeakPick ==
    Reported =>
        /\ report.confidence = PairsAt(report.offset)
        /\ \A key \in AllKeys : PairsAt(key) <= report.confidence

\* C8 witness: one fingerprint of A matched by a fingerprint listed twice in B
C8_Witness ==
    /\ Reported
    /\ Len(fingerprintsA) = 1
    /\ Len(fingerprintsB) = 2
    /\ fingerprintsB[1] = fingerprintsB[2]
    /\ report.confidence = 2

\* round(num / den) with a quotient halfway between two integers going to the
\* one farther from zero
RoundHalfAway(num, den) ==
    IF num >= 0 THEN (2 * num + den) \div (2 * den)
    ELSE 0 - ((2 * (0 - num) + den) \div (2 * den))

\* C19 as stated: the offset bin reported for a match is the offset of one of
\* the matched pairs quantized with round-half-away-from-zero.
C19_RoundHalfAway ==
    (Reported /\ report.confidence > 0) =>
        \E x \in 1..Len(fingerprintsA), y \in 1..Len(fingerprintsB) :
            /\ fingerprintsA[x].hash = fingerprintsB[y].hash
            /\ report.offset =
                   RoundHalfAway(fingerprintsB[y].time - fingerprintsA[x].time,
                                 BinSize) * BinSize

\* the number, from 0, of the frame that pushed the mark at position x of a
\* list of nm marks after k frame steps: marks are appended at the end and
\* dropped from the front only
PushedBy(k, nm, x) == k - (nm - x) - 1

\* C20 as stated: a mark, and every fingerprint emitted for it as anchor,
\* carries the frame index of its frame, frames numbered from 0.
C20_TimeIsFrameIndex ==
    /\ \A x \in 1..Len(marks) :
          marks[x].t = PushedBy(Len(frameLog), Len(marks), x)
    /\ \A k \in 1..Len(frameLog) :
          frameLog[k].t0 >= 0 =>
              frameLog[k].anchor.t = PushedBy(k, frameLog[k].nm, frameLog[k].t0 + 1)

\* C20 amended: the frame numbered f (from 0) is the window starting at
\* sample f * STEP; its mark, and every fingerprint emitted for it as
\* anchor, carries f + 1, the value of stepIndex / STEP after the increment;
\* no fingerprint carries time 0.
C20_TimeIsFrameIndexPlusOne ==
    /\ stepIndex = Len(frameLog) * STEP
    /\ \A x \in 1..Len(marks) :
          marks[x].t = PushedBy(Len(frameLog), Len(marks), x) + 1
    /\ \A k \in 1..Len(frameLog) :
          frameLog[k].t0 >= 0 =>
              frameLog[k].anchor.t = PushedBy(k, frameLog[k].nm, frameLog[k].t0 + 1) + 1
    /\ \A x \in 1..Len(tcodesOut) :
          /\ tcodesOut[x] >= 1
          /\ \E k \in 1..Len(frameLog) :
                /\ frameLog[k].hs # <<>>
                /\ tcodesOut[x] = frameLog[k].anchor.t

\* C20 witness: a fingerprint whose anchor is the first frame of the stream
\* has been emitted, and it carries time 1
C20_Witness ==
    /\ Len(tcodesOut) > 0
    /\ Len(frameLog) > PRUNING_DT
    /\ Len(frameLog[1].hs) = 0
    /\ Len(frameLog[PRUNING_DT + 1].hs) > 0
    /\ PushedBy(PRUNING_DT + 1, frameLog[PRUNING_DT + 1].nm,
                frameLog[PRUNING_DT + 1].t0 + 1) = 0
    /\ tcodesOut[1] = 1

\* bytes received by _write beyond the start of the current hop
BeyondHop == Len(pcm) - stepIndex * BPS

\* number of frames f >= 0 whose last byte lies strictly before byte n
FramesBefore(n) ==
    IF n <= NFFT * BPS THEN 0 ELSE ((n - NFFT * BPS - 1) \div (STEP * BPS)) + 1

\* C21 as stated: whenever _write has returned, fewer than NFFT whole samples
\* are buffered beyond the current hop, and no frame read outside the bytes
\* received.
C21_FrameAdmissionStated ==
    /\ ~crashed
    /\ BeyondHop \div BPS < NFFT

\* C21 amended: a frame is processed only once more than NFFT samples' worth
\* of bytes beyond the current hop is buffered; whenever _write has returned
\* at most NFFT whole samples are buffered beyond the current hop, the
\* frames processed are those whose last byte lies strictly before the end
\* of the bytes received (a stream of exactly NFFT + k * STEP samples has k
\* frames processed), and no frame read outside the bytes received.
C21_FrameAdmission ==
    /\ ~crashed
    /\ Len(buffer) + bufferDelta = Len(pcm)
    /\ BeyondHop <= NFFT * BPS
    /\ Len(frameLog) = FramesBefore(Len(pcm))
    /\ Len(frameLog) > 0 => (stepIndex - STEP + NFFT) * BPS < Len(pcm)

\* C21 witness: the whole stream of NFFT + k * STEP samples has been written,
\* exactly NFFT samples are buffered beyond the current hop, and k frames
\* have been processed
C21_Witness ==
    /\ pending = <<>>
    /\ BeyondHop = NFFT * BPS
    /\ Len(pcm) = (NFFT + Len(frameLog) * STEP) * BPS
    /\ Len(frameLog) > 0

\* the mark dt frames before the anchor among the marks read in a step
ReadAt(step, dt) == step.read[Len(step.read) - dt]

\* the partners <<dt, q>> of anchor peak a in a step: peak q of the frame dt
\* before the anchor, at another bin less than WINDOW_DF away, both valid
Partners(step, a) ==
    {z \in (0..(Len(step.read) - 1)) \X (1..MNLM) :
        /\ z[2] <= Len(ReadAt(step, z[1]).i)
        /\ step.anchor.i[a] # NEG_INF
        /\ ReadAt(step, z[1]).i[z[2]] # NEG_INF
        /\ ReadAt(step, z[1]).i[z[2]] # step.anchor.i[a]
        /\ Abs(ReadAt(step, z[1]).i[z[2]] - step.anchor.i[a]) < WINDOW_DF}

\* the scan order of partners: nearer frame first, then stored peak order
ScannedBefore(y, z) == y[1] < z[1] \/ (y[1] = z[1] /\ y[2] < z[2])

\* the partners of anchor peak a that the step emitted, read off the hashes
EmittedPartners(step, a) ==
    {z \in Partners(step, a) :
        \E x \in 1..Len(step.hs) :
            step.hs[x] = ReadAt(step, z[1]).i[z[2]]
                            + HalfN * (step.anchor.i[a] + HalfN * z[1])}

\* the key <<a, dt, q>> of the x-th hash of a step
HashKey(step, x) ==
    CHOOSE key \in (1..MNLM) \X (0..WINDOW_DT) \X (1..MNLM) :
        /\ key[1] <= Len(step.anchor.i)
        /\ <<key[2], key[3]>> \in Partners(step, key[1])
        /\ step.hs[x] = ReadAt(step, key[2]).i[key[3]]
                            + HalfN * (step.anchor.i[key[1]] + HalfN * key[2])

KeyBefore(j, k) ==
    \/ j[1] < k[1]
    \/ j[1] = k[1] /\ ScannedBefore(<<j[2], j[3]>>, <<k[2], k[3]>>)

\* C22: each anchor peak yields min(MPPP, number of its partners)
\* fingerprints; they are its first partners in scan order (the anchor frame
\* itself, dt = 0, first, then back to at most WINDOW_DT frames earlier, in
\* stored peak order inside a frame); the fingerprints of a step come anchor
\* peak by anchor peak in stored order, and a peak that reached the cap does
\* not stop the peaks after it.
C22_PairingOrder ==
    \A k \in 1..Len(frameLog) :
        frameLog[k].t0 >= 0 =>
            /\ Len(frameLog[k].read) <= WINDOW_DT + 1
            /\ \A x \in 1..Len(frameLog[k].hs) :
                  \E key \in (1..MNLM) \X (0..WINDOW_DT) \X (1..MNLM) :
                      /\ key[1] <= Len(frameLog[k].anchor.i)
                      /\ key[2] < Len(frameLog[k].read)
                      /\ <<key[2], key[3]>> \in Partners(frameLog[k], key[1])
                      /\ HashKey(frameLog[k], x) = key
            /\ \A x, y \in 1..Len(frameLog[k].hs) :
                  x < y => KeyBefore(HashKey(frameLog[k], x), HashKey(frameLog[k], y))
            /\ \A a \in 1..Len(frameLog[k].anchor.i) :
                  /\ Cardinality(EmittedPartners(frameLog[k], a))
                        = Min(MPPP, Cardinality(Partners(frameLog[k], a)))
                  /\ \A y \in EmittedPartners(frameLog[k], a) :
                        \A z \in Partners(frameLog[k], a) \ EmittedPartners(frameLog[k], a) :
                            ScannedBefore(y, z)

\* C22 witness: the first anchor peak of a step has more than MPPP partners,
\* one of them in the anchor frame itself, its scan stopped at the cap, and
\* the second anchor peak still emitted its own fingerprints
C22_Witness ==
    \E k \in 1..Len(frameLog) :
        /\ frameLog[k].t0 >= 0
        /\ Len(frameLog[k].anchor.i) = 2
        /\ Cardinality(Partners(frameLog[k], 1)) > MPPP
        /\ <<0, 2>> \in EmittedPartners(frameLog[k], 1)
        /\ Cardinality(EmittedPartners(frameLog[k], 1)) = MPPP
        /\ Cardinality(EmittedPartners(frameLog[k], 2)) > 0
        /\ Len(frameLog[k].hs) > MPPP

\* C23 as stated: for a non-empty A the number of matches at the winning
\* offset is at most |A| and matchRate lies in [0, 1].
C23_MatchRateFraction ==
    (Reported /\ Len(fingerprintsA) > 0) =>
        /\ report.matchCount <= Len(fingerprintsA)
        /\ ~report.matchRate.nan
        /\ 0 <= report.matchRate.num
        /\ report.matchRate.num <= report.matchRate.den

\* B with every time increased by K, same order
ShiftB(fp, K) == [x \in 1..Len(fp) |-> [time |-> fp[x].time + K, hash |-> fp[x].hash]]

\* the report with the offset and every timeB increased by K
ShiftReport(r, K) ==
    [offset |-> r.offset + K,
     matchCount |-> r.matchCount,
     matchRate |-> r.matchRate,
     confidence |-> r.confidence,
     matches |-> [x \in 1..Len(r.matches) |->
                    [hashA |-> r.matches[x].hashA,
                     timeA |-> r.matches[x].timeA,
                     timeB |-> r.matches[x].timeB + K]]]

\* the shifts tried, all multiples of binSize
Shifts == {BinSize, 2 * BinSize, UnitsPerMs}

\* some bin other than the reported one holds as many pairs as it
TiedBins == \E key \in AllKeys : key # report.offset /\ PairsAt(key) = report.confidence

\* C24 as stated: whenever A matched B, matching A against B shifted by a
\* multiple K of binSize reports the offset increased by K, the same
\* confidence, matchCount and matchRate, and the same matches with timeB
\* increased by K, ties between bins included.
C24_TranslationEquivariant ==
    (Reported /\ report.confidence > 0) =>
        \A K \in Shifts :
            FindPosition(fingerprintsA, ShiftB(fingerprintsB, K)) = ShiftReport(report, K)

\* the same relation for the inputs in which one bin alone holds the maximum
C24_EquivariantWithoutTies ==
    (Reported /\ report.confidence > 0 /\ ~TiedBins) =>
        \A K \in Shifts :
            FindPosition(fingerprintsA, ShiftB(fingerprintsB, K)) = ShiftReport(report, K)

\* no bin count reaches floor(earlyStopThreshold * |A|) during the scan
NoBinReachesStop ==
    \A ta \in EarlyTimes, tb \in EarlyTimes :
        PairsAt(BinKey(tb - ta)) > 0 =>
            PairsAt(BinKey(tb - ta)) < (Len(fingerprintsA) * earlyStopThreshold) \div 10

\* C25: on the same A and B the early-stop variant never reports a larger
\* confidence than the plain variant, and reports the same confidence
\* whenever no bin count reaches floor(earlyStopThreshold * |A|).
C25_EarlyStopUnderReports ==
    (Reported /\ reportEarly # NoReport) =>
        /\ reportEarly.confidence <= report.confidence
        /\ NoBinReachesStop => reportEarly.confidence = report.confidence

\* C25 witness: both variants have run on lists with matching pairs in more
\* than one bin, no bin reached the stop count, and the confidences agree
C25_Witness ==
    /\ Reported
    /\ reportEarly # NoReport
    /\ NoBinReachesStop
    /\ report.confidence > 0
    /\ Len(report.matches) < Len(MatchDetails(fingerprintsA, fingerprintsB))
    /\ reportEarly.confidence = report.confidence

===========================================================================
